---- MODULE Spec2Model ----
(***************************************************************************)
(* A model of src/types/mod.rs of dalvik-rs: the type descriptor parser    *)
(* and its Display, the shorty descriptor parser, the AccessFlags Display   *)
(* and the aggregation records Prototype, AnnotationsDirectory and Class.   *)
(*                                                                         *)
(* A Rust &str / String is a sequence of one-character strings.  A Result  *)
(* is a record with a field tag: "Ok" (with val), "Err" (with err and arg) *)
(* or "Panic" (the thread unwinds: an arithmetic overflow in a build with  *)
(* overflow checks).  An Option is a record with tag "None" or "Some".     *)
(***************************************************************************)
EXTENDS Integers, Sequences, FiniteSets, TLC

VARIABLES
    overflow_checks,  \* build profile: TRUE = overflow checks on (dev), FALSE = off (release)
    s,                \* the descriptor handed to <Type as FromStr>::from_str
    pc,               \* where that call stands: "start", "loop" or "done"
    pos,              \* the position chars.next() reads next in the loop
    dimensions,       \* the local dimensions of the loop
    parsed,           \* its Result, [tag |-> "None"] before the call
    shown,            \* Option<String>: format!("{}", t) of the parsed Type
    shorty_s,         \* the string handed to <ShortyDescriptor as FromStr>::from_str
    shorty,           \* its Result, [tag |-> "None"] before the call
    flags,            \* the bits of an AccessFlags value
    display,          \* Option<String>: format!("{}", flags)
    args,             \* the arguments handed to the last constructor call
    obj,              \* the constructed Prototype / AnnotationsDirectory / Class
    ret,              \* what the last accessor call returned
    collapsed,        \* Option<ShortyReturnType>: ShortyReturnType::from(t) of the parsed Type
    first_tag,        \* ShortyReturnType::from_char of the first character of s, None before
    field_type,       \* Option<ShortyFieldType>: a parameter tag
    converted         \* Option<ShortyReturnType>: ShortyReturnType::from(field_type)

vars == <<overflow_checks, s, pc, pos, dimensions, parsed, shown, shorty_s, shorty, flags, display,
          args, obj, ret, collapsed, first_tag, field_type, converted>>

conversions == <<collapsed, first_tag, field_type, converted>>

None == [tag |-> "None"]
Some(v) == [tag |-> "Some", val |-> v]
Ok(v) == [tag |-> "Ok", val |-> v]
Err(e, a) == [tag |-> "Err", err |-> e, arg |-> a]
Panic == [tag |-> "Panic"]

(***************************************************************************)
(* Bounds of the model.                                                    *)
(***************************************************************************)
\* descriptors start with 0..SmallDims or U8Max..MaxDims '[' characters
SmallDims == 3
MaxDims == 257
\* and go on with at most one leading character and MaxRest further ones
MaxRest == 2
\* shorty strings have at most MaxShorty characters
MaxShorty == 3
\* an AccessFlags value has at most MaxCombine bits set
MaxCombine == 4
\* the collections handed to the constructors have at most MaxColl elements
MaxColl == 2

\* the largest value of a u8 (Type::Array.dimensions)
U8Max == 255

(***************************************************************************)
(* enum Type                                                               *)
(***************************************************************************)
Type_Void == [tag |-> "Void"]
Type_Boolean == [tag |-> "Boolean"]
Type_Byte == [tag |-> "Byte"]
Type_Short == [tag |-> "Short"]
Type_Char == [tag |-> "Char"]
Type_Int == [tag |-> "Int"]
Type_Long == [tag |-> "Long"]
Type_Float == [tag |-> "Float"]
Type_Double == [tag |-> "Double"]
Type_FullyQualifiedName(name) == [tag |-> "FullyQualifiedName", name |-> name]
Type_Array(dim, elem) ==
    [tag |-> "Array", dimensions |-> dim, array_type |-> elem]

\* chars.collect() / chars.as_str(): what is left of str from position i on
Remainder(str, i) == SubSeq(str, i, Len(str))

\* Some('L') => Ok(Self::FullyQualifiedName(chars.collect())), chars past the 'L'
ReferenceNameKeepsOnlyBeforeSemicolon(str) ==
    LET r == Remainder(str, 2)
    IN  IF Len(r) > 0 /\ r[Len(r)] = ";" THEN SubSeq(r, 1, Len(r) - 1) ELSE r
ReferenceName(str) == Remainder(str, 2)

\* dimensions += 1 on a u8: a panic with overflow checks, a wrap without
AddOne(dim, checks) ==
    IF dim + 1 > U8Max
        THEN IF checks THEN Panic ELSE Ok((dim + 1) % (U8Max + 1))
        ELSE Ok(dim + 1)

\* s.len() - dimensions as usize, the capacity of type_str (usize arithmetic):
\* below zero it panics on the subtraction or on the allocation
Capacity(str, dim) ==
    IF Len(str) - dim < 0 THEN Panic ELSE Ok(Len(str) - dim)

\* The arms of the match on the first character, for every first character
\* but '[': the Result from_str returns there.  [tag |-> "Loop"] for '[',
\* whose arm is the loop the actions FromStrBracket, FromStrElement and
\* FromStrEnd step through.
FirstArm(str) ==
    IF Len(str) = 0 THEN Err("InvalidTypeDescriptor", str)
    ELSE CASE str[1] = "V" -> Ok(Type_Void)
           [] str[1] = "Z" -> Ok(Type_Boolean)
           [] str[1] = "B" -> Ok(Type_Byte)
           [] str[1] = "S" -> Ok(Type_Short)
           [] str[1] = "C" -> Ok(Type_Char)
           [] str[1] = "I" -> Ok(Type_Int)
           [] str[1] = "J" -> Ok(Type_Long)
           [] str[1] = "F" -> Ok(Type_Float)
           [] str[1] = "D" -> Ok(Type_Double)
           [] str[1] = "L" -> Ok(Type_FullyQualifiedName(ReferenceName(str)))
           [] str[1] = "[" -> [tag |-> "Loop"]
           [] OTHER -> Err("InvalidTypeDescriptor", str)

\* The Some(t) arm of the loop at position i with the count dim (dimensions):
\* type_str is t and what follows it, type_str.parse()? is the nested from_str,
\* which sees a first character other than '[' and so returns by FirstArm.
ElementArm(str, i, dim) ==
    LET type_str == Remainder(str, i)
        inner == FirstArm(type_str)
    IN  IF Capacity(str, dim).tag = "Panic" THEN Panic
        ELSE IF inner.tag = "Ok"
            THEN Ok(Type_Array(dim, inner.val))
            ELSE inner

\* write!(f, "{}", dimensions) of a u8
RECURSIVE Decimal(_)
Decimal(n) ==
    LET digit == <<"0","1","2","3","4","5","6","7","8","9">>[(n % 10) + 1]
    IN  IF n < 10 THEN <<digit>> ELSE Decimal(n \div 10) \o <<digit>>

\* the keyword arms of <Type as fmt::Display>::fmt
KeywordShortensBoolean(tag) ==
    CASE tag = "Void" -> <<"v","o","i","d">>
      [] tag = "Boolean" -> <<"b","o","o","l">>
      [] tag = "Byte" -> <<"b","y","t","e">>
      [] tag = "Short" -> <<"s","h","o","r","t">>
      [] tag = "Char" -> <<"c","h","a","r">>
      [] tag = "Int" -> <<"i","n","t">>
      [] tag = "Long" -> <<"l","o","n","g">>
      [] tag = "Float" -> <<"f","l","o","a","t">>
      [] tag = "Double" -> <<"d","o","u","b","l","e">>
Keyword(tag) ==
    CASE tag = "Void" -> <<"v","o","i","d">>
      [] tag = "Boolean" -> <<"b","o","o","l","e","a","n">>
      [] tag = "Byte" -> <<"b","y","t","e">>
      [] tag = "Short" -> <<"s","h","o","r","t">>
      [] tag = "Char" -> <<"c","h","a","r">>
      [] tag = "Int" -> <<"i","n","t">>
      [] tag = "Long" -> <<"l","o","n","g">>
      [] tag = "Float" -> <<"f","l","o","a","t">>
      [] tag = "Double" -> <<"d","o","u","b","l","e">>

\* <Type as fmt::Display>::fmt
RECURSIVE Type_fmt(_)
Type_fmt(t) ==
    CASE t.tag = "FullyQualifiedName" -> t.name
      [] t.tag = "Array" ->
            Type_fmt(t.array_type) \o <<"[">> \o Decimal(t.dimensions) \o <<"]">>
      [] OTHER -> Keyword(t.tag)

(***************************************************************************)
(* The descriptors the parser is run on.                                   *)
(***************************************************************************)
PrimitiveTags == {"V", "Z", "B", "S", "C", "I", "J", "F", "D"}
FirstChars == PrimitiveTags \cup {"L", "[", "X", ";"}
RestChars == {"I", "[", ";", "a"}

SeqsUpTo(S, n) == UNION {[1..k -> S] : k \in 0..n}
Brackets(n) == [i \in 1..n |-> "["]
Tails == {<<>>} \cup {<<c>> \o r : c \in FirstChars, r \in SeqsUpTo(RestChars, MaxRest)}
Dims == (0..SmallDims) \cup (U8Max..MaxDims)
Descriptors == {Brackets(n) \o t : n \in Dims, t \in Tails}

(***************************************************************************)
(* Type parsing and Display as a state machine.  pc is where the call of   *)
(* from_str stands: "start" before it, "loop" inside the loop of the '['   *)
(* arm, "done" once it has returned or panicked.                           *)
(***************************************************************************)
InitType ==
    /\ overflow_checks \in BOOLEAN
    /\ s \in Descriptors
    /\ pc = "start" /\ pos = 1 /\ dimensions = 0
    /\ parsed = None /\ shown = None
    /\ shorty_s = <<>> /\ shorty = None
    /\ flags = 0 /\ display = None
    /\ args = None /\ obj = None /\ ret = None
    /\ collapsed = None /\ first_tag = None /\ field_type = None /\ converted = None

others == <<shorty_s, shorty, flags, display, args, obj, ret, conversions>>

\* s.parse::<Type>(): chars.next() and the match on it
FromStrEnter ==
    /\ pc = "start"
    /\ IF FirstArm(s).tag = "Loop"
           THEN /\ pc' = "loop" /\ pos' = 2 /\ dimensions' = 1
                /\ UNCHANGED parsed
           ELSE /\ pc' = "done" /\ parsed' = FirstArm(s)
                /\ UNCHANGED <<pos, dimensions>>
    /\ UNCHANGED <<overflow_checks, s, shown, others>>

\* one turn of the loop, chars.next() = Some('['): dimensions += 1
FromStrBracket ==
    /\ pc = "loop" /\ pos <= Len(s) /\ s[pos] = "["
    /\ LET d == AddOne(dimensions, overflow_checks)
       IN  IF d.tag = "Panic"
               THEN /\ pc' = "done" /\ parsed' = Panic
                    /\ UNCHANGED <<pos, dimensions>>
               ELSE /\ pos' = pos + 1 /\ dimensions' = d.val
                    /\ UNCHANGED <<pc, parsed>>
    /\ UNCHANGED <<overflow_checks, s, shown, others>>

\* the last turn of the loop, chars.next() = Some(t): the element type
FromStrElement ==
    /\ pc = "loop" /\ pos <= Len(s) /\ s[pos] # "["
    /\ pc' = "done"
    /\ parsed' = ElementArm(s, pos, dimensions)
    /\ UNCHANGED <<overflow_checks, s, pos, dimensions, shown, others>>

\* the last turn of the loop, chars.next() = None
FromStrEnd ==
    /\ pc = "loop" /\ pos > Len(s)
    /\ pc' = "done"
    /\ parsed' = Err("InvalidTypeDescriptor", s)
    /\ UNCHANGED <<overflow_checks, s, pos, dimensions, shown, others>>

\* format!("{}", t) of the parsed Type
DisplayType ==
    /\ pc = "done" /\ parsed.tag = "Ok"
    /\ shown = None
    /\ shown' = Some(Type_fmt(parsed.val))
    /\ UNCHANGED <<overflow_checks, s, pc, pos, dimensions, parsed, others>>

NextType ==
    \/ FromStrEnter
    \/ FromStrBracket
    \/ FromStrElement
    \/ FromStrEnd
    \/ DisplayType

SpecType == InitType /\ [][NextType]_vars

(***************************************************************************)
(* enum ShortyReturnType, enum ShortyFieldType, struct ShortyDescriptor    *)
(***************************************************************************)
\* ShortyReturnType::from_char
ShortyReturnType_from_char(c) ==
    CASE c = "V" -> Ok("Void")
      [] c = "Z" -> Ok("Boolean")
      [] c = "B" -> Ok("Byte")
      [] c = "S" -> Ok("Short")
      [] c = "C" -> Ok("Char")
      [] c = "I" -> Ok("Int")
      [] c = "J" -> Ok("Long")
      [] c = "F" -> Ok("Float")
      [] c = "D" -> Ok("Double")
      [] c = "L" -> Ok("Reference")
      [] OTHER -> Err("InvalidShortyType", c)

\* ShortyFieldType::from_char
ShortyFieldTypeAcceptsVoid(c) == ShortyReturnType_from_char(c)
ShortyFieldType_from_char(c) ==
    CASE c = "Z" -> Ok("Boolean")
      [] c = "B" -> Ok("Byte")
      [] c = "S" -> Ok("Short")
      [] c = "C" -> Ok("Char")
      [] c = "I" -> Ok("Int")
      [] c = "J" -> Ok("Long")
      [] c = "F" -> Ok("Float")
      [] c = "D" -> Ok("Double")
      [] c = "L" -> Ok("Reference")
      [] OTHER -> Err("InvalidShortyType", c)

ShortyDescriptor(return_type, field_types) ==
    [return_type |-> return_type, field_types |-> field_types]

\* for c in chars { field_types.push(ShortyFieldType::from_char(c)?); } from
\* position i on, then Ok(Self { return_type, field_types })
RECURSIVE FieldTypesLoop(_, _, _, _)
FieldTypesLoop(str, i, return_type, field_types) ==
    IF i > Len(str) THEN Ok(ShortyDescriptor(return_type, field_types))
    ELSE LET f == ShortyFieldType_from_char(str[i])
         IN  IF f.tag = "Err" THEN f
             ELSE FieldTypesLoop(str, i + 1, return_type, Append(field_types, f.val))

\* <ShortyDescriptor as FromStr>::from_str
ShortyDescriptor_from_str(str) ==
    IF Len(str) = 0 THEN Err("InvalidShortyDescriptor", str)
    ELSE LET r == ShortyReturnType_from_char(str[1])
         IN  IF r.tag = "Err" THEN r
             ELSE FieldTypesLoop(str, 2, r.val, <<>>)

ShortyChars == PrimitiveTags \cup {"L", "[", "X"}
Shorties == SeqsUpTo(ShortyChars, MaxShorty)

InitShorty ==
    /\ overflow_checks \in BOOLEAN
    /\ s = <<>> /\ pc = "start" /\ pos = 1 /\ dimensions = 0
    /\ parsed = None /\ shown = None
    /\ shorty_s \in Shorties /\ shorty = None
    /\ flags = 0 /\ display = None
    /\ args = None /\ obj = None /\ ret = None
    /\ collapsed = None /\ first_tag = None /\ field_type = None /\ converted = None

\* shorty_s.parse::<ShortyDescriptor>()
ParseShorty ==
    /\ shorty = None
    /\ shorty' = ShortyDescriptor_from_str(shorty_s)
    /\ UNCHANGED <<overflow_checks, s, pc, pos, dimensions, parsed, shown,
                   shorty_s, flags, display, args, obj, ret, conversions>>

NextShorty == ParseShorty

SpecShorty == InitShorty /\ [][NextShorty]_vars

(***************************************************************************)
(* bitflags! struct AccessFlags: u32, and its Display                       *)
(***************************************************************************)
ACC_PUBLIC == 1
ACC_PRIVATE == 2
ACC_PROTECTED == 4
ACC_STATIC == 8
ACC_FINAL == 16
ACC_SYNCHRONIZED == 32
ACC_VOLATILE == 64
ACC_BRIDGE == 64
ACC_TRANSIENT == 128
ACC_VARARGS == 128
ACC_NATIVE == 256
ACC_INTERFACE == 512
ACC_ABSTRACT == 1024
ACC_STRICT == 2048
ACC_SYNTHETIC == 4096
ACC_ANNOTATION == 8192
ACC_ENUM == 16384
ACC_CONSTRUCTOR == 65536
ACC_DECLARED_SYNCHRONIZED == 131072
AllFlags ==
    {ACC_PUBLIC, ACC_PRIVATE, ACC_PROTECTED, ACC_STATIC,
     ACC_FINAL, ACC_SYNCHRONIZED, ACC_VOLATILE, ACC_BRIDGE,
     ACC_TRANSIENT, ACC_VARARGS, ACC_NATIVE, ACC_INTERFACE,
     ACC_ABSTRACT, ACC_STRICT, ACC_SYNTHETIC, ACC_ANNOTATION,
     ACC_ENUM, ACC_CONSTRUCTOR, ACC_DECLARED_SYNCHRONIZED}

\* a & b and a | b on the bits of two u32
RECURSIVE BitAnd(_, _)
BitAnd(a, b) ==
    IF a = 0 \/ b = 0 THEN 0
    ELSE 2 * BitAnd(a \div 2, b \div 2) + (IF a % 2 = 1 /\ b % 2 = 1 THEN 1 ELSE 0)
RECURSIVE BitOr(_, _)
BitOr(a, b) ==
    IF a = 0 THEN b ELSE IF b = 0 THEN a
    ELSE 2 * BitOr(a \div 2, b \div 2) + (IF a % 2 = 1 \/ b % 2 = 1 THEN 1 ELSE 0)

\* self.contains(other): all the bits of other are set in self
contains(bits, other) == BitAnd(bits, other) = other

\* the if self.contains(..) { out.push_str(..) } statements of fmt, in order
Pushes == <<
    <<ACC_PUBLIC, <<"p","u","b","l","i","c"," ">>>>,
    <<ACC_PRIVATE, <<"p","r","i","v","a","t","e"," ">>>>,
    <<ACC_PROTECTED, <<"p","r","o","t","e","c","t","e","d"," ">>>>,
    <<ACC_STATIC, <<"s","t","a","t","i","c"," ">>>>,
    <<ACC_FINAL, <<"f","i","n","a","l"," ">>>>,
    <<ACC_SYNCHRONIZED, <<"s","y","n","c","h","r","o","n","i","z","e","d"," ">>>>,
    <<ACC_VOLATILE, <<"v","o","l","a","t","i","l","e"," ">>>>,
    <<ACC_BRIDGE, <<"b","r","i","d","g","e"," ">>>>,
    <<ACC_TRANSIENT, <<"t","r","a","n","s","i","e","n","t"," ">>>>,
    <<ACC_VARARGS, <<"v","a","r","a","r","g","s"," ">>>>,
    <<ACC_NATIVE, <<"n","a","t","i","v","e"," ">>>>,
    <<ACC_ABSTRACT, <<"a","b","s","t","r","a","c","t"," ">>>>,
    <<ACC_INTERFACE, <<"i","n","t","e","r","f","a","c","e"," ">>>>,
    <<ACC_STRICT, <<"s","t","r","i","c","t"," ">>>>,
    <<ACC_SYNTHETIC, <<"s","y","n","t","h","e","t","i","c"," ">>>>,
    <<ACC_ENUM, <<"e","n","u","m"," ">>>>,
    <<ACC_CONSTRUCTOR, <<"c","o","n","s","t","r","u","c","t","o","r"," ">>>>,
    <<ACC_DECLARED_SYNCHRONIZED, <<"s","y","n","c","h","r","o","n","i","z","e","d">>>> >>

\* out after the statements i.. of Pushes have run on it
RECURSIVE PushFrom(_, _, _)
PushFrom(bits, i, out) ==
    IF i > Len(Pushes) THEN out
    ELSE PushFrom(bits, i + 1,
                  IF contains(bits, Pushes[i][1]) THEN out \o Pushes[i][2] ELSE out)

\* str::trim: without the white space it starts and ends with
RECURSIVE trim_start(_)
trim_start(str) ==
    IF Len(str) > 0 /\ str[1] = " " THEN trim_start(Tail(str)) ELSE str
RECURSIVE trim_end(_)
trim_end(str) ==
    IF Len(str) > 0 /\ str[Len(str)] = " "
        THEN trim_end(SubSeq(str, 1, Len(str) - 1)) ELSE str
TrimNothing(str) == str
trim(str) == trim_end(trim_start(str))

\* <AccessFlags as fmt::Display>::fmt: write!(f, "{}", out.trim())
AccessFlags_fmt(bits) == trim(PushFrom(bits, 1, <<>>))

\* the number of bits set in bits
RECURSIVE PopCount(_)
PopCount(bits) == IF bits = 0 THEN 0 ELSE (bits % 2) + PopCount(bits \div 2)

InitFlags ==
    /\ overflow_checks \in BOOLEAN
    /\ s = <<>> /\ pc = "start" /\ pos = 1 /\ dimensions = 0
    /\ parsed = None /\ shown = None
    /\ shorty_s = <<>> /\ shorty = None
    /\ flags = 0 /\ display = None
    /\ args = None /\ obj = None /\ ret = None
    /\ collapsed = None /\ first_tag = None /\ field_type = None /\ converted = None

\* flags | f, for a flag f of the vocabulary
Combine ==
    /\ PopCount(flags) < MaxCombine
    /\ \E f \in AllFlags : flags' = BitOr(flags, f)
    /\ display' = None
    /\ UNCHANGED <<overflow_checks, s, pc, pos, dimensions, parsed, shown,
                   shorty_s, shorty, args, obj, ret, conversions>>

\* format!("{}", flags)
DisplayFlags ==
    /\ display = None
    /\ display' = Some(AccessFlags_fmt(flags))
    /\ UNCHANGED <<overflow_checks, s, pc, pos, dimensions, parsed, shown,
                   shorty_s, shorty, flags, args, obj, ret, conversions>>

NextFlags == Combine \/ DisplayFlags

SpecFlags == InitFlags /\ [][NextFlags]_vars

(***************************************************************************)
(* struct Prototype, the annotation records, struct AnnotationsDirectory   *)
(* and struct Class: records of their fields.                              *)
(***************************************************************************)
\* a collapse that gives an array the tag of its element type
RECURSIVE CollapseArrayAsElement(_)
CollapseArrayAsElement(t) ==
    CASE t.tag = "FullyQualifiedName" -> "Reference"
      [] t.tag = "Array" -> CollapseArrayAsElement(t.array_type)
      [] OTHER -> t.tag

\* <ShortyReturnType as From<Type>>::from
ShortyReturnType_from_Type(t) ==
    CASE t.tag = "Void" -> "Void"
      [] t.tag = "Boolean" -> "Boolean"
      [] t.tag = "Byte" -> "Byte"
      [] t.tag = "Short" -> "Short"
      [] t.tag = "Char" -> "Char"
      [] t.tag = "Int" -> "Int"
      [] t.tag = "Long" -> "Long"
      [] t.tag = "Float" -> "Float"
      [] t.tag = "Double" -> "Double"
      [] t.tag \in {"FullyQualifiedName", "Array"} -> "Reference"

\* whether a shorty descriptor agrees with full types, tag by tag
Agrees(descriptor, return_type, parameters) ==
    LET ps == IF parameters.tag = "Some" THEN parameters.val ELSE <<>>
    IN  /\ descriptor.return_type = ShortyReturnType_from_Type(return_type)
        /\ Len(descriptor.field_types) = Len(ps)
        /\ \A i \in 1..Len(ps) :
               descriptor.field_types[i] = ShortyReturnType_from_Type(ps[i])

\* Prototype::new; parameters is the Option that parameters.into() gives
Prototype_newValidating(descriptor, return_type, parameters) ==
    IF Agrees(descriptor, return_type, parameters)
        THEN [tag |-> "Prototype", descriptor |-> descriptor,
              return_type |-> return_type, parameters |-> parameters]
        ELSE Err("InvalidShortyDescriptor", descriptor)
Prototype_new(descriptor, return_type, parameters) ==
    [tag |-> "Prototype", descriptor |-> descriptor,
     return_type |-> return_type, parameters |-> parameters]

\* struct EncodedAnnotation and struct Annotation
EncodedAnnotation(type_id, elements) == [type_id |-> type_id, elements |-> elements]
Annotation(visibility, annotation) ==
    [visibility |-> visibility, annotation |-> annotation]

\* FieldAnnotations::new, MethodAnnotations::new, ParameterAnnotations::new
FieldAnnotations_new(field_id, annotations) ==
    [tag |-> "FieldAnnotations", field_id |-> field_id, annotations |-> annotations]
MethodAnnotations_new(method_id, annotations) ==
    [tag |-> "MethodAnnotations", method_id |-> method_id, annotations |-> annotations]
ParameterAnnotations_new(method_id, annotations) ==
    [tag |-> "ParameterAnnotations", method_id |-> method_id,
     annotations |-> annotations]

\* the index an element of an indexed collection is keyed by
IndexOf(e) == IF e.tag = "FieldAnnotations" THEN e.field_id ELSE e.method_id
\* a collection sorted by index, duplicate indices dropped
RECURSIVE Dedup(_)
Dedup(seq) ==
    IF Len(seq) <= 1 THEN seq
    ELSE IF IndexOf(seq[1]) = IndexOf(seq[2]) THEN Dedup(Tail(seq))
    ELSE <<seq[1]>> \o Dedup(Tail(seq))
Normalised(seq) == Dedup(SortSeq(seq, LAMBDA a, b : IndexOf(a) < IndexOf(b)))

\* AnnotationsDirectory::new; each argument is the Box<[_]> that .into() gives
AnnotationsDirectory_newNormalising(ca, fa, ma, pa) ==
    [tag |-> "AnnotationsDirectory",
     class_annotations |-> ca,
     field_annotations |-> Normalised(fa),
     method_annotations |-> Normalised(ma),
     parameter_annotations |-> Normalised(pa)]
AnnotationsDirectory_new(ca, fa, ma, pa) ==
    [tag |-> "AnnotationsDirectory",
     class_annotations |-> ca,
     field_annotations |-> fa,
     method_annotations |-> ma,
     parameter_annotations |-> pa]

\* the accessors of AnnotationsDirectory
class_annotations(self) == self.class_annotations
field_annotations(self) == self.field_annotations
method_annotations(self) == self.method_annotations
parameter_annotations(self) == self.parameter_annotations

\* struct Array and some values of enum Value
Value_Int(n) == [tag |-> "Int", val |-> n]
Value_Null == [tag |-> "Null"]
Value_Array(inner) == [inner |-> inner]

\* read::ClassData, opaque here but for the number of its static fields
ClassData(static_fields) == [static_fields |-> static_fields]

\* Class::new
Class_newSwappingIndices(class_index, access_flags, superclass_index, interfaces, source_file_index, annotations, class_data, static_values) ==
    [tag |-> "Class",
     class_index |-> class_index,
     access_flags |-> access_flags,
     superclass_index |-> source_file_index,
     interfaces |-> interfaces,
     source_file_index |-> superclass_index,
     annotations |-> annotations,
     class_data |-> class_data,
     static_values |-> static_values]
Class_new(class_index, access_flags, superclass_index, interfaces, source_file_index, annotations, class_data, static_values) ==
    [tag |-> "Class",
     class_index |-> class_index,
     access_flags |-> access_flags,
     superclass_index |-> superclass_index,
     interfaces |-> interfaces,
     source_file_index |-> source_file_index,
     annotations |-> annotations,
     class_data |-> class_data,
     static_values |-> static_values]

\* the accessors of Class; Option::as_ref keeps None and the content of Some
as_ref(option) == option
Class_class_index(self) == self.class_index
Class_access_flags(self) == self.access_flags
Class_superclass_index(self) == self.superclass_index
Class_interfaces(self) == self.interfaces
Class_source_file_index(self) == self.source_file_index
Class_annotations(self) == as_ref(self.annotations)
Class_class_data(self) == as_ref(self.class_data)
Class_static_values(self) == as_ref(self.static_values)

(***************************************************************************)
(* The arguments the constructors are called with.                         *)
(***************************************************************************)
Indices == {0, 1}
Annotations ==
    {Annotation("Build", EncodedAnnotation(0, <<>>)),
     Annotation("Runtime", EncodedAnnotation(1, <<[name |-> 0, value |-> Value_Null]>>))}
OneAnnotation == <<Annotation("System", EncodedAnnotation(2, <<>>))>>
ClassAnnotationLists == SeqsUpTo(Annotations, MaxColl)
FieldAnnotationLists ==
    SeqsUpTo({FieldAnnotations_new(i, OneAnnotation) : i \in Indices}, MaxColl)
MethodAnnotationLists ==
    SeqsUpTo({MethodAnnotations_new(i, OneAnnotation) : i \in Indices}, MaxColl)
ParameterAnnotationLists ==
    SeqsUpTo({ParameterAnnotations_new(i, <<>>) : i \in Indices}, MaxColl)

ShortyDescriptors ==
    {ShortyDescriptor_from_str(str).val : str \in {<<"V">>, <<"I", "L">>, <<"L", "J", "I">>}}
FullTypes == {Type_Void, Type_Int, Type_FullyQualifiedName(<<"a", ";">>),
              Type_Array(1, Type_Long)}
ParameterLists ==
    {None} \cup {Some(ps) : ps \in {<<>>, <<Type_Int>>,
                                    <<Type_Array(1, Type_Long), Type_Double>>}}

Directories ==
    {AnnotationsDirectory_new(<<>>, <<>>, <<>>, <<>>),
     AnnotationsDirectory_new(OneAnnotation, <<FieldAnnotations_new(1, OneAnnotation)>>,
                              <<>>, <<>>)}
StaticValues == {Value_Int(7), Value_Null}
StaticValueArrays == {Value_Array(vs) : vs \in SeqsUpTo(StaticValues, MaxColl)}
Option(S) == {None} \cup {Some(x) : x \in S}

InitNew ==
    /\ overflow_checks \in BOOLEAN
    /\ s = <<>> /\ pc = "start" /\ pos = 1 /\ dimensions = 0
    /\ parsed = None /\ shown = None
    /\ shorty_s = <<>> /\ shorty = None
    /\ flags = 0 /\ display = None
    /\ args = None /\ obj = None /\ ret = None
    /\ collapsed = None /\ first_tag = None /\ field_type = None /\ converted = None

unbuilt == <<overflow_checks, s, pc, pos, dimensions, parsed, shown,
             shorty_s, shorty, flags, display, conversions>>

\* Prototype::new(descriptor, return_type, parameters)
NewPrototype ==
    /\ obj = None
    /\ \E d \in ShortyDescriptors, r \in FullTypes, ps \in ParameterLists :
          /\ args' = [tag |-> "Prototype::new", descriptor |-> d,
                      return_type |-> r, parameters |-> ps]
          /\ obj' = Prototype_new(d, r, ps)
    /\ UNCHANGED <<unbuilt, ret>>

\* AnnotationsDirectory::new(class_annotations, field_annotations, ..)
NewAnnotationsDirectory ==
    /\ obj = None
    /\ \E ca \in ClassAnnotationLists, fa \in FieldAnnotationLists,
          ma \in MethodAnnotationLists, pa \in ParameterAnnotationLists :
          /\ args' = [tag |-> "AnnotationsDirectory::new",
                      class_annotations |-> ca, field_annotations |-> fa,
                      method_annotations |-> ma, parameter_annotations |-> pa]
          /\ obj' = AnnotationsDirectory_new(ca, fa, ma, pa)
    /\ UNCHANGED <<unbuilt, ret>>

\* Class::new(class_index, access_flags, superclass_index, ..)
NewClass ==
    /\ obj = None
    /\ \E ci \in {3, 4}, af \in {ACC_PUBLIC, ACC_PUBLIC + ACC_FINAL},
          sc \in Option({0}), ifs \in {<<>>, <<Type_FullyQualifiedName(<<"a", ";">>)>>},
          sf \in Option({2}), an \in Option(Directories),
          cd \in Option({ClassData(1)}), sv \in Option(StaticValueArrays) :
          /\ args' = [tag |-> "Class::new", class_index |-> ci, access_flags |-> af,
                      superclass_index |-> sc, interfaces |-> ifs,
                      source_file_index |-> sf, annotations |-> an,
                      class_data |-> cd, static_values |-> sv]
          /\ obj' = Class_new(ci, af, sc, ifs, sf, an, cd, sv)
    /\ UNCHANGED <<unbuilt, ret>>

Returned(name, value) == [tag |-> name, val |-> value]

\* a call of one of the four accessors of the directory
GetClassAnnotations ==
    /\ obj.tag = "AnnotationsDirectory"
    /\ ret' = Returned("class_annotations", class_annotations(obj))
    /\ UNCHANGED <<unbuilt, args, obj>>
GetFieldAnnotations ==
    /\ obj.tag = "AnnotationsDirectory"
    /\ ret' = Returned("field_annotations", field_annotations(obj))
    /\ UNCHANGED <<unbuilt, args, obj>>
GetMethodAnnotations ==
    /\ obj.tag = "AnnotationsDirectory"
    /\ ret' = Returned("method_annotations", method_annotations(obj))
    /\ UNCHANGED <<unbuilt, args, obj>>
GetParameterAnnotations ==
    /\ obj.tag = "AnnotationsDirectory"
    /\ ret' = Returned("parameter_annotations", parameter_annotations(obj))
    /\ UNCHANGED <<unbuilt, args, obj>>

\* a call of one of the eight accessors of the class
GetClassIndex ==
    /\ obj.tag = "Class"
    /\ ret' = Returned("class_index", Class_class_index(obj))
    /\ UNCHANGED <<unbuilt, args, obj>>
GetAccessFlags ==
    /\ obj.tag = "Class"
    /\ ret' = Returned("access_flags", Class_access_flags(obj))
    /\ UNCHANGED <<unbuilt, args, obj>>
GetSuperclassIndex ==
    /\ obj.tag = "Class"
    /\ ret' = Returned("superclass_index", Class_superclass_index(obj))
    /\ UNCHANGED <<unbuilt, args, obj>>
GetInterfaces ==
    /\ obj.tag = "Class"
    /\ ret' = Returned("interfaces", Class_interfaces(obj))
    /\ UNCHANGED <<unbuilt, args, obj>>
GetSourceFileIndex ==
    /\ obj.tag = "Class"
    /\ ret' = Returned("source_file_index", Class_source_file_index(obj))
    /\ UNCHANGED <<unbuilt, args, obj>>
GetAnnotations ==
    /\ obj.tag = "Class"
    /\ ret' = Returned("annotations", Class_annotations(obj))
    /\ UNCHANGED <<unbuilt, args, obj>>
GetClassData ==
    /\ obj.tag = "Class"
    /\ ret' = Returned("class_data", Class_class_data(obj))
    /\ UNCHANGED <<unbuilt, args, obj>>
GetStaticValues ==
    /\ obj.tag = "Class"
    /\ ret' = Returned("static_values", Class_static_values(obj))
    /\ UNCHANGED <<unbuilt, args, obj>>

NextNew ==
    \/ NewPrototype
    \/ NewAnnotationsDirectory
    \/ NewClass
    \/ GetClassAnnotations
    \/ GetFieldAnnotations
    \/ GetMethodAnnotations
    \/ GetParameterAnnotations
    \/ GetClassIndex
    \/ GetAccessFlags
    \/ GetSuperclassIndex
    \/ GetInterfaces
    \/ GetSourceFileIndex
    \/ GetAnnotations
    \/ GetClassData
    \/ GetStaticValues

SpecNew == InitNew /\ [][NextNew]_vars

(***************************************************************************)
(* The conversions into ShortyReturnType: from a parsed Type, from the     *)
(* first character of its descriptor, and from a ShortyFieldType.          *)
(***************************************************************************)
\* enum ShortyFieldType
ShortyFieldType ==
    {"Boolean", "Byte", "Short", "Char", "Int", "Long", "Float", "Double", "Reference"}

\* enum ShortyReturnType
ShortyReturnType == {"Void"} \cup ShortyFieldType

\* <ShortyReturnType as From<ShortyFieldType>>::from
ShortyReturnType_from_ShortyFieldType(ft) ==
    CASE ft = "Boolean" -> "Boolean"
      [] ft = "Byte" -> "Byte"
      [] ft = "Short" -> "Short"
      [] ft = "Char" -> "Char"
      [] ft = "Int" -> "Int"
      [] ft = "Long" -> "Long"
      [] ft = "Float" -> "Float"
      [] ft = "Double" -> "Double"
      [] ft = "Reference" -> "Reference"

\* the descriptors converted: up to SmallDims '[' and then any tail
ConvertedDescriptors == {Brackets(n) \o t : n \in 0..SmallDims, t \in Tails}

InitConvert ==
    /\ overflow_checks \in BOOLEAN
    /\ s \in ConvertedDescriptors
    /\ pc = "start" /\ pos = 1 /\ dimensions = 0
    /\ parsed = None /\ shown = None
    /\ shorty_s = <<>> /\ shorty = None
    /\ flags = 0 /\ display = None
    /\ args = None /\ obj = None /\ ret = None
    /\ collapsed = None /\ first_tag = None /\ field_type = None /\ converted = None

parsing == <<overflow_checks, s, pc, pos, dimensions, parsed, shown,
             shorty_s, shorty, flags, display, args, obj, ret>>

\* ShortyReturnType::from(t) of the Type that s.parse() returned
CollapseType ==
    /\ pc = "done" /\ parsed.tag = "Ok"
    /\ collapsed = None
    /\ collapsed' = Some(ShortyReturnType_from_Type(parsed.val))
    /\ UNCHANGED <<parsing, first_tag, field_type, converted>>

\* ShortyReturnType::from_char(c) of the first character c of s
FirstCharTag ==
    /\ Len(s) > 0
    /\ first_tag = None
    /\ first_tag' = ShortyReturnType_from_char(s[1])
    /\ UNCHANGED <<parsing, collapsed, field_type, converted>>

\* ShortyReturnType::from(ft) of a parameter tag ft
ConvertFieldType ==
    /\ field_type = None
    /\ \E ft \in ShortyFieldType :
          /\ field_type' = Some(ft)
          /\ converted' = Some(ShortyReturnType_from_ShortyFieldType(ft))
    /\ UNCHANGED <<parsing, collapsed, first_tag>>

NextConvert ==
    \/ FromStrEnter
    \/ FromStrBracket
    \/ FromStrElement
    \/ FromStrEnd
    \/ CollapseType
    \/ FirstCharTag
    \/ ConvertFieldType

SpecConvert == InitConvert /\ [][NextConvert]_vars

(***************************************************************************)
(* What the claims about Type say, stated on the input s alone.            *)
(***************************************************************************)
\* the number of '[' characters str starts with
LeadingBrackets(str) ==
    LET others_at == {i \in 1..Len(str) : str[i] # "["}
    IN  IF others_at = {} THEN Len(str)
        ELSE (CHOOSE i \in others_at : \A j \in others_at : i <= j) - 1

\* str without the '[' characters it starts with
AfterBrackets(str) == Remainder(str, LeadingBrackets(str) + 1)

\* the Type a primitive tag stands for
PrimitiveOf(c) ==
    CASE c = "V" -> Type_Void [] c = "Z" -> Type_Boolean [] c = "B" -> Type_Byte
      [] c = "S" -> Type_Short [] c = "C" -> Type_Char [] c = "I" -> Type_Int
      [] c = "J" -> Type_Long [] c = "F" -> Type_Float [] c = "D" -> Type_Double

\* the keyword documented for a primitive tag
KeywordOf(c) ==
    CASE c = "V" -> <<"v","o","i","d">>
      [] c = "Z" -> <<"b","o","o","l","e","a","n">>
      [] c = "B" -> <<"b","y","t","e">>
      [] c = "S" -> <<"s","h","o","r","t">>
      [] c = "C" -> <<"c","h","a","r">>
      [] c = "I" -> <<"i","n","t">>
      [] c = "J" -> <<"l","o","n","g">>
      [] c = "F" -> <<"f","l","o","a","t">>
      [] c = "D" -> <<"d","o","u","b","l","e">>

\* the number a string of decimal digits writes, -1 when it is not one
DigitValue(c) ==
    CASE c = "0" -> 0 [] c = "1" -> 1 [] c = "2" -> 2 [] c = "3" -> 3
      [] c = "4" -> 4 [] c = "5" -> 5 [] c = "6" -> 6 [] c = "7" -> 7
      [] c = "8" -> 8 [] c = "9" -> 9 [] OTHER -> -1
RECURSIVE DigitsValue(_)
DigitsValue(ds) ==
    IF Len(ds) = 0 \/ \E i \in 1..Len(ds) : DigitValue(ds[i]) < 0 THEN -1
    ELSE IF Len(ds) = 1 THEN DigitValue(ds[1])
    ELSE 10 * DigitsValue(SubSeq(ds, 1, Len(ds) - 1)) + DigitValue(ds[Len(ds)])

\* C1 (as claimed): n >= 1 '[' characters followed by a descriptor d of a
\* non-array Type parse to Array{dimensions = n, array_type = parse(d)}; every
\* Array the parser returns has dimensions >= 1, equal to the number of leading
\* '[' characters, and an array_type that is no Array.
C1_ArrayOfEveryDimension ==
    pc = "done" =>
        /\ (LeadingBrackets(s) >= 1 /\ FirstArm(AfterBrackets(s)).tag = "Ok") =>
                parsed = Ok(Type_Array(LeadingBrackets(s), FirstArm(AfterBrackets(s)).val))
        /\ (parsed.tag = "Ok" /\ parsed.val.tag = "Array") =>
                /\ parsed.val.dimensions >= 1
                /\ parsed.val.dimensions = LeadingBrackets(s)
                /\ parsed.val.array_type.tag # "Array"

\* the descriptors C3 lists as malformed
Malformed(str) ==
    \/ Len(str) = 0
    \/ str[1] \notin PrimitiveTags \cup {"L", "["}
    \/ /\ LeadingBrackets(str) >= 1
       /\ \/ Len(AfterBrackets(str)) = 0
          \/ AfterBrackets(str)[1] \notin PrimitiveTags \cup {"L"}

\* C3 (as claimed): parsing fails with InvalidTypeDescriptor, returning no Type,
\* exactly for the malformed descriptors, and succeeds for every other input.
C3_FailsExactlyOnMalformed ==
    pc = "done" =>
        IF Malformed(s)
            THEN parsed.tag = "Err" /\ parsed.err = "InvalidTypeDescriptor"
            ELSE parsed.tag = "Ok"

\* C5: 'L' followed by any r parses to FullyQualifiedName(r): only the leading
\* 'L' is removed, a trailing ';' is kept, no terminator is required.
C5_ReferenceNameVerbatim ==
    (pc = "done" /\ Len(s) >= 1 /\ s[1] = "L") =>
        parsed = Ok(Type_FullyQualifiedName(Tail(s)))

\* a reference descriptor with a trailing ';' has been parsed and kept it
C5_Witness ==
    /\ pc = "done" /\ Len(s) >= 3 /\ s[1] = "L" /\ s[Len(s)] = ";"
    /\ parsed.tag = "Ok" /\ parsed.val.tag = "FullyQualifiedName"
    /\ Len(parsed.val.name) = Len(s) - 1
    /\ parsed.val.name[Len(s) - 1] = ";"

\* the Display of an Array: that of its element, '[', the decimal digits of
\* dimensions without leading zeros, ']'
ArrayShownAs(t, out) ==
    LET e == Type_fmt(t.array_type)
        k == IF t.dimensions < 10 THEN 1 ELSE IF t.dimensions < 100 THEN 2 ELSE 3
    IN  /\ Len(out) = Len(e) + k + 2
        /\ SubSeq(out, 1, Len(e)) = e
        /\ out[Len(e) + 1] = "["
        /\ DigitsValue(SubSeq(out, Len(e) + 2, Len(out) - 1)) = t.dimensions
        /\ out[Len(out)] = "]"

\* C6: a one-character primitive tag parses, and its Display is the documented
\* keyword; the Display of FullyQualifiedName(name) is name; the Display of an
\* Array is Display(array_type), '[', dimensions in decimal, ']'.
C6_DisplayForms ==
    /\ (pc = "done" /\ Len(s) = 1 /\ s[1] \in PrimitiveTags) =>
            /\ parsed = Ok(PrimitiveOf(s[1]))
            /\ shown.tag = "Some" => shown.val = KeywordOf(s[1])
    /\ (shown.tag = "Some" /\ parsed.val.tag = "FullyQualifiedName") =>
            shown.val = parsed.val.name
    /\ (shown.tag = "Some" /\ parsed.val.tag = "Array") =>
            ArrayShownAs(parsed.val, shown.val)

\* an array of a primitive with a three-digit dimensions has been displayed
C6_Witness ==
    /\ shown.tag = "Some" /\ parsed.tag = "Ok" /\ parsed.val.tag = "Array"
    /\ parsed.val.dimensions >= 100
    /\ parsed.val.array_type = Type_Boolean
    /\ Len(shown.val) = 12

\* C10 (as claimed): what follows a primitive tag is ignored: t followed by any
\* r parses as t alone, and n '[' characters followed by t and r parse to
\* Array{dimensions = n, array_type = parse(t)}.
C10_TrailingIgnored ==
    (/\ pc = "done"
     /\ Len(AfterBrackets(s)) >= 1
     /\ AfterBrackets(s)[1] \in PrimitiveTags) =>
        IF LeadingBrackets(s) = 0
            THEN parsed = Ok(PrimitiveOf(s[1]))
            ELSE parsed = Ok(Type_Array(LeadingBrackets(s),
                                        PrimitiveOf(AfterBrackets(s)[1])))

(***************************************************************************)
(* What the claim about ShortyDescriptor says.                             *)
(***************************************************************************)
ReturnChars == {"V", "Z", "B", "S", "C", "I", "J", "F", "D", "L"}
ParameterChars == ReturnChars \ {"V"}

\* the tag a shorty character stands for
TagOf(c) ==
    CASE c = "V" -> "Void" [] c = "Z" -> "Boolean" [] c = "B" -> "Byte"
      [] c = "S" -> "Short" [] c = "C" -> "Char" [] c = "I" -> "Int"
      [] c = "J" -> "Long" [] c = "F" -> "Float" [] c = "D" -> "Double"
      [] c = "L" -> "Reference"

\* the positions of str holding a character not allowed there
Rejected(str) ==
    {i \in 1..Len(str) :
        str[i] \notin (IF i = 1 THEN ReturnChars ELSE ParameterChars)}

\* C2: shorty parsing fails with InvalidShortyDescriptor exactly on the empty
\* string, otherwise with InvalidShortyType(c) for the first character c not
\* allowed at its position ('V' only first), otherwise succeeds with the tag
\* of the first character and the tags of the others, in order.
C2_ShortyParsing ==
    shorty # None =>
        IF Len(shorty_s) = 0
            THEN shorty = Err("InvalidShortyDescriptor", shorty_s)
        ELSE IF Rejected(shorty_s) # {}
            THEN LET i == CHOOSE k \in Rejected(shorty_s) :
                              \A j \in Rejected(shorty_s) : k <= j
                 IN  shorty = Err("InvalidShortyType", shorty_s[i])
        ELSE /\ shorty.tag = "Ok"
             /\ shorty.val.return_type = TagOf(shorty_s[1])
             /\ Len(shorty.val.field_types) = Len(shorty_s) - 1
             /\ \A i \in 1..(Len(shorty_s) - 1) :
                    shorty.val.field_types[i] = TagOf(shorty_s[i + 1])

\* a 'V' in a parameter position, after valid characters, has been rejected
C2_Witness ==
    /\ Len(shorty_s) >= 3
    /\ Rejected(shorty_s) = {Len(shorty_s)}
    /\ shorty_s[Len(shorty_s)] = "V"
    /\ shorty = Err("InvalidShortyType", "V")

(***************************************************************************)
(* What the claim about the Display of AccessFlags says.                   *)
(***************************************************************************)
\* the fixed list of words, each with the bit that selects it
Words == <<
    [bit |-> 1, word |-> <<"p","u","b","l","i","c">>],
    [bit |-> 2, word |-> <<"p","r","i","v","a","t","e">>],
    [bit |-> 4, word |-> <<"p","r","o","t","e","c","t","e","d">>],
    [bit |-> 8, word |-> <<"s","t","a","t","i","c">>],
    [bit |-> 16, word |-> <<"f","i","n","a","l">>],
    [bit |-> 32, word |-> <<"s","y","n","c","h","r","o","n","i","z","e","d">>],
    [bit |-> 64, word |-> <<"v","o","l","a","t","i","l","e">>],
    [bit |-> 64, word |-> <<"b","r","i","d","g","e">>],
    [bit |-> 128, word |-> <<"t","r","a","n","s","i","e","n","t">>],
    [bit |-> 128, word |-> <<"v","a","r","a","r","g","s">>],
    [bit |-> 256, word |-> <<"n","a","t","i","v","e">>],
    [bit |-> 1024, word |-> <<"a","b","s","t","r","a","c","t">>],
    [bit |-> 512, word |-> <<"i","n","t","e","r","f","a","c","e">>],
    [bit |-> 2048, word |-> <<"s","t","r","i","c","t">>],
    [bit |-> 4096, word |-> <<"s","y","n","t","h","e","t","i","c">>],
    [bit |-> 16384, word |-> <<"e","n","u","m">>],
    [bit |-> 65536, word |-> <<"c","o","n","s","t","r","u","c","t","o","r">>],
    [bit |-> 131072, word |-> <<"s","y","n","c","h","r","o","n","i","z","e","d">>] >>

RECURSIVE JoinFrom(_, _, _)
\* the words i.. of Words whose bit is set in bits, space-joined after out
JoinFrom(bits, i, out) ==
    IF i > Len(Words) THEN out
    ELSE IF (bits \div Words[i].bit) % 2 = 1
        THEN JoinFrom(bits, i + 1,
                      IF out = <<>> THEN Words[i].word
                      ELSE out \o <<" ">> \o Words[i].word)
        ELSE JoinFrom(bits, i + 1, out)

\* C4: the rendered string is the space-joined sequence, with no leading or
\* trailing space, of the words of the fixed list whose bits are set, in list
\* order; ACC_ANNOTATION changes nothing, bit 0x40 renders "volatile bridge"
\* and bit 0x80 "transient varargs".
C4_RenderingIsJoinedWords ==
    display.tag = "Some" =>
        /\ display.val = JoinFrom(flags, 1, <<>>)
        /\ display.val = AccessFlags_fmt(BitOr(flags, ACC_ANNOTATION))
        /\ (Len(display.val) > 0 =>
                display.val[1] # " " /\ display.val[Len(display.val)] # " ")

\* ACC_PUBLIC | ACC_INTERFACE | ACC_ABSTRACT | ACC_ANNOTATION has been rendered
\* as "public abstract interface"
C4_Witness ==
    /\ flags = ACC_PUBLIC + ACC_INTERFACE + ACC_ABSTRACT + ACC_ANNOTATION
    /\ display = Some(<<"p","u","b","l","i","c"," ","a","b","s","t","r","a","c","t"," ","i","n","t","e","r","f","a","c","e">>)

(***************************************************************************)
(* What the claims about the aggregation records say.                      *)
(***************************************************************************)
\* C7: each accessor of an AnnotationsDirectory returns the collection passed
\* to new in its position, same elements, same order, sorted or not, after
\* any number of accessor calls in any order.
C7_DirectoryReturnsArguments ==
    obj.tag = "AnnotationsDirectory" =>
        /\ args.tag = "AnnotationsDirectory::new"
        /\ ret.tag = "class_annotations" => ret.val = args.class_annotations
        /\ ret.tag = "field_annotations" => ret.val = args.field_annotations
        /\ ret.tag = "method_annotations" => ret.val = args.method_annotations
        /\ ret.tag = "parameter_annotations" => ret.val = args.parameter_annotations
        /\ class_annotations(obj) = args.class_annotations
        /\ field_annotations(obj) = args.field_annotations
        /\ method_annotations(obj) = args.method_annotations
        /\ parameter_annotations(obj) = args.parameter_annotations

\* field_annotations() has returned a collection passed with its indices in
\* descending order, and the method collection holds a duplicate index
C7_Witness ==
    /\ obj.tag = "AnnotationsDirectory"
    /\ Len(args.field_annotations) = 2
    /\ args.field_annotations[1].field_id > args.field_annotations[2].field_id
    /\ Len(args.method_annotations) = 2
    /\ args.method_annotations[1].method_id = args.method_annotations[2].method_id
    /\ ret = Returned("field_annotations", args.field_annotations)

\* C8: every accessor of a Class returns the value passed to new in its
\* position; an absent optional field reads None, a present static_values
\* reads back with the same elements in the same order.
C8_ClassReturnsArguments ==
    obj.tag = "Class" =>
        /\ args.tag = "Class::new"
        /\ ret.tag = "class_index" => ret.val = args.class_index
        /\ ret.tag = "access_flags" => ret.val = args.access_flags
        /\ ret.tag = "superclass_index" => ret.val = args.superclass_index
        /\ ret.tag = "interfaces" => ret.val = args.interfaces
        /\ ret.tag = "source_file_index" => ret.val = args.source_file_index
        /\ ret.tag = "annotations" => ret.val = args.annotations
        /\ ret.tag = "class_data" => ret.val = args.class_data
        /\ ret.tag = "static_values" => ret.val = args.static_values
        /\ (/\ ret.tag \in {"superclass_index", "source_file_index", "annotations",
                            "class_data", "static_values"}
            /\ args[ret.tag] = None) => ret.val = None

\* static_values() has returned a present array of two different values, of a
\* class built with a superclass index and no source file index
C8_Witness ==
    /\ obj.tag = "Class"
    /\ args.superclass_index = Some(0) /\ args.source_file_index = None
    /\ args.static_values = Some(Value_Array(<<Value_Null, Value_Int(7)>>))
    /\ ret = Returned("static_values", args.static_values)

\* C9: Prototype::new, Class::new and AnnotationsDirectory::new return the
\* record of their arguments for every argument combination: no error, no
\* rejected input, whether or not the arguments agree with each other.
C9_ConstructorsNeverFail ==
    /\ args.tag = "Prototype::new" =>
            /\ obj.tag = "Prototype"
            /\ obj.descriptor = args.descriptor
            /\ obj.return_type = args.return_type
            /\ obj.parameters = args.parameters
    /\ args.tag = "AnnotationsDirectory::new" => obj.tag = "AnnotationsDirectory"
    /\ args.tag = "Class::new" => obj.tag = "Class"

\* a Prototype has been built whose shorty descriptor disagrees with its full
\* types both in length and in category
C9_Witness ==
    /\ args.tag = "Prototype::new" /\ obj.tag = "Prototype"
    /\ obj.descriptor.return_type # ShortyReturnType_from_Type(obj.return_type)
    /\ obj.parameters.tag = "Some"
    /\ Len(obj.descriptor.field_types) # Len(obj.parameters.val)

(***************************************************************************)
(* What the claim about the category collapse says.                        *)
(***************************************************************************)
PrimitiveNames ==
    {"Void", "Boolean", "Byte", "Short", "Char", "Int", "Long", "Float", "Double"}

\* C11: collapsing a Type gives a primitive or Void the tag of the same name
\* and every FullyQualifiedName and every Array the tag Reference, so that a
\* Type other than Void never collapses to Void; when the parsed descriptor
\* starts with one of V,Z,B,S,C,I,J,F,D,L, the collapsed tag is the one
\* ShortyReturnType::from_char gives for that character; converting a
\* parameter tag to a return tag keeps its name and never gives Void.
C11_CollapseAgrees ==
    /\ collapsed # None =>
          /\ parsed.tag = "Ok"
          /\ parsed.val.tag \in PrimitiveNames => collapsed.val = parsed.val.tag
          /\ parsed.val.tag \in {"FullyQualifiedName", "Array"} =>
                collapsed.val = "Reference"
          /\ parsed.val # Type_Void => collapsed.val # "Void"
    /\ (collapsed # None /\ first_tag # None /\ s[1] \in ReturnChars) =>
          first_tag = Ok(collapsed.val)
    /\ converted # None =>
          /\ converted.val = field_type.val
          /\ converted.val # "Void"

\* a class name holding ';' and '[' has been parsed from a descriptor that
\* starts with 'L', collapsed and compared with the tag of 'L', and the
\* parameter tag Reference has been converted
C11_Witness ==
    /\ s = <<"L", ";", "[">>
    /\ parsed = Ok(Type_FullyQualifiedName(<<";", "[">>))
    /\ collapsed = Some("Reference")
    /\ first_tag = Ok("Reference")
    /\ field_type = Some("Reference") /\ converted = Some("Reference")

====
